---- MODULE Spec2Model ----
(***************************************************************************)
(* Model of probe_accuracy_test_suite.py: the Printer/Probe construction,  *)
(* main()'s try/except/finally, Test_suite.run and its four scenarios,     *)
(* Printer.move/level_bed and Test_suite._test_probe.                      *)
(*                                                                         *)
(* One step of the model is one interaction of the script with the outside *)
(* (an HTTP query, a gcode script, a log fetch, an operator prompt)        *)
(* together with the local computation that follows it.                    *)
(*                                                                         *)
(* Reading note: line 367 (`except:` of the innermost try of               *)
(* _get_bed_corners) is indented one level too deep and the file does not  *)
(* compile as written; the model reads that `except:` at the indentation   *)
(* of its `try:` (line 364), like the three handlers around it.            *)
(***************************************************************************)
EXTENDS Integers, Sequences, FiniteSets, TLC

\* Python's None, for number-valued fields.
NONE == -99
\* The empty string typed at a prompt that expects a number.
EmptyStr == -98

(***************************************************************************)
(* Bounds of the model.                                                    *)
(***************************************************************************)
\* Most lines the controller writes to the log in answer to one command.
MaxLines == 2
\* Off-nominal events of one run: an answer to PROBE_ACCURACY other than the
\* nominal one, an empty line typed at the safe-height prompt, an interrupt
\* that lands inside a bare `except:`.
MaxFaults == 1
\* Entries the controller's gcode store keeps (oldest evicted).
StoreSize == 8

(***************************************************************************)
(* Program constants.                                                      *)
(***************************************************************************)
MinCorner == 10
RepeatCount == 10
SpeedCount == 10
\* Probe speeds are counted in tenths of mm/s: 350 is the 35 of line 617
\* and 10 the 1 of line 614.
ConfirmSpeed == 350
MinSpeed == 10
FetchCount == 1000
BeaconSafeZ == 2
RandomMoves == 4
DefaultCorner == 30
DefaultRepeat == 20
DefaultDrift == 100

\* Python truthiness of a number-valued field (None, 0 and "" are falsy).
Truthy(v) == v /= NONE /\ v /= 0 /\ v /= EmptyStr

\* Python truthiness of a string-valued configuration value; "absent" stands
\* for a missing key (dict.get gives None).
TruthyStr(s) == s /= "absent" /\ s /= ""

Last(s) == s[Len(s)]

SeqMap(F(_), s) == [k \in 1..Len(s) |-> F(s[k])]

RECURSIVE Flatten(_)
Flatten(ss) == IF ss = <<>> THEN <<>> ELSE Head(ss) \o Flatten(Tail(ss))

(***************************************************************************)
(* Probe (lines 52-159).                                                   *)
(***************************************************************************)
NoProbe == [isKlicky |-> FALSE, isKlippain |-> FALSE, isTap |-> FALSE, isBeacon |-> FALSE]

\* Probe._detect over the controller's configuration h: the first two
\* heuristics return at a match; the last four are nested in each other's
\* except clauses, so a section that is present ends the search.
detect(h) ==
  IF Truthy(h.dock_x) THEN [NoProbe EXCEPT !.isKlicky = TRUE]
  ELSE IF TruthyStr(h.probe_type) /\ h.probe_type = "dockable"
       THEN [NoProbe EXCEPT !.isKlippain = TRUE]
  ELSE IF h.idm /= NONE THEN [NoProbe EXCEPT !.isBeacon = Truthy(h.idm)]
  ELSE IF h.beacon /= NONE THEN [NoProbe EXCEPT !.isBeacon = Truthy(h.beacon)]
  ELSE IF h.cartographer /= NONE THEN [NoProbe EXCEPT !.isBeacon = Truthy(h.cartographer)]
  ELSE [NoProbe EXCEPT !.isTap = (h.endstop = "virtual")]

is_present_always(p) == TRUE

is_present(p) == p.isKlicky \/ p.isKlippain \/ p.isTap \/ p.isBeacon

(***************************************************************************)
(* Gcode scripts.  A script is a record; the fields a script does not use  *)
(* are NONE.                                                               *)
(***************************************************************************)
G(op) == [op |-> op, x |-> NONE, y |-> NONE, z |-> NONE, f |-> NONE,
          n |-> NONE, spd |-> NONE, ret |-> NONE]

\* Printer._move: G90, then one G0 with the axes that were given.
move_scripts(x, y, z, feedrate) ==
  << G("G90"), [G("G0") EXCEPT !.x = x, !.y = y, !.z = z, !.f = feedrate] >>

\* Probe.lock(lock): the scripts it sends.
lock_scripts(p, lock) ==
  (IF p.isKlicky THEN << G("ATTACH_PROBE_LOCK") >> ELSE <<>>)
  \o (IF p.isKlippain
      THEN (IF lock THEN << G("ACTIVATE_PROBE LOCK=true") >> ELSE << G("ACTIVATE_PROBE") >>)
      ELSE <<>>)

\* Probe.unlock(unlock): the scripts it sends.
unlock_scripts(p, unlock) ==
  IF p.isKlicky THEN << G("DOCK_PROBE_UNLOCK") >>
  ELSE IF p.isKlippain
       THEN (IF unlock THEN << G("DEACTIVATE_PROBE UNLOCK=true") >> ELSE << G("DEACTIVATE_PROBE") >>)
       ELSE <<>>

\* The PROBE_ACCURACY script of _test_probe (lines 646-652).
probe_script(probe_count, retract, speed, self_speed) ==
  [G("PROBE_ACCURACY") EXCEPT
     !.n = probe_count,
     !.ret = IF Truthy(retract) THEN retract ELSE NONE,
     !.spd = IF Truthy(speed) THEN speed
             ELSE IF Truthy(self_speed) THEN self_speed ELSE NONE]

IsLateral(c) == c.op = "G0" /\ (c.x /= NONE \/ c.y /= NONE)
IsSafeZMove(c) == c.op = "G0" /\ c.x = NONE /\ c.y = NONE /\ c.z /= NONE
IsMotion(c) == c.op \in {"G0", "G28"}
IsLevel(c) == c.op \in {"z_tilt_adjust", "quad_gantry_level"}
IsLock(c) == c.op \in {"ATTACH_PROBE_LOCK", "ACTIVATE_PROBE LOCK=true"}
IsUnlock(c) == c.op \in {"DOCK_PROBE_UNLOCK", "DEACTIVATE_PROBE UNLOCK=true"}
IsProbeCmd(c) == c.op = "PROBE_ACCURACY"

(***************************************************************************)
(* The controller's gcode store and the parsing of _test_probe.            *)
(***************************************************************************)
\* A log entry is [time, kind, nums]: kind "command" is a script sent to the
\* controller, "sample" a line starting "// probe at", "errK" the
\* klicky-macro error line, "errU" any other line starting "!!", "other"
\* any other response; nums are the numbers re.findall finds in the line.
LineKinds == {"sample", "errK", "errU", "other"}

BoundedSeqs(S, n) == UNION { [1..k -> S] : k \in 0..n }

\* What the controller may write in answer to one PROBE_ACCURACY.
Answers == BoundedSeqs(LineKinds, MaxLines)

\* The answer of a healthy controller.
Nominal == [k \in 1..MaxLines |-> "sample"]

\* The height the controller reports in the k-th line of an answer; trigger
\* heights below zero are reported with a minus sign.
ZOf(k) == 1 - ((k * 2) % 3)

\* The numbers written in the k-th line of an answer probed at (x, y): a
\* Beacon-family controller reports four numbers per line.
line_nums(beacon, x, y, k) == IF beacon THEN << x, y, 9, ZOf(k) >> ELSE << x, y, ZOf(k) >>

\* re.findall(r"[\d.]+", text) over a text in which the numbers nums are
\* written: a minus sign is not part of a match.
findall(nums) == [k \in 1..Len(nums) |-> IF nums[k] < 0 THEN 0 - nums[k] ELSE nums[k]]

LastN(s, n) == IF Len(s) <= n THEN s ELSE SubSeq(s, Len(s) - n + 1, Len(s))

\* The store keeps its newest StoreSize entries.
Store(l) == LastN(l, StoreSize)

\* Printer.get_gcode_store(count): the newest count entries.
get_gcode_store(l, count) == LastN(l, count)

gcode_resp_all(l, start) == get_gcode_store(l, FetchCount)

\* Lines 655-671: the entries newer than the watermark, split by prefix.
gcode_resp(l, start) == SelectSeq(get_gcode_store(l, FetchCount), LAMBDA e : e.time > start)
err_msgs(l, start) == SelectSeq(gcode_resp(l, start), LAMBDA e : e.kind \in {"errK", "errU"})
msgs(l, start) == SelectSeq(gcode_resp(l, start), LAMBDA e : e.kind = "sample")

\* Probe.check_error as it is called at line 677: the method is declared
\* without self and receives two positional arguments, so the call raises
\* TypeError for every message.
check_error(msg) == "TypeError"

\* Lines 683-686: the unpacking succeeds only with the expected count.
unpacks(beacon, nums) == Len(nums) = (IF beacon THEN 4 ELSE 3)

\* Lines 679-693: one row per sample line, numbered by enumerate.
parse(ms, testname, beacon) ==
  [k \in 1..Len(ms) |->
     LET coor == findall(ms[k].nums)
     IN [test |-> testname, sample_index |-> k - 1,
         x |-> coor[1], y |-> coor[2],
         z |-> IF beacon THEN coor[4] ELSE coor[3]]]

no_measurements_ignored(data) == FALSE

\* Line 695.
no_measurements(data) == Len(data) = 0

\* Lines 700-703: config["probe"].get("drop_first_result"), False when the
\* section is missing.
printer_config_drop_first(h) == IF h.has_probe THEN h.drop_first ELSE ""

\* The keep_first argument of _test_probe: no call site passes it (lines
\* 467, 510, 536, 590), so it is the default of line 632.
keep_first_arg(p) == FALSE

drop_kept(data, drop, keep_first) == data

\* Lines 705-709: data.pop(0) raises IndexError on an empty list.
pop_fails(data, drop, keep_first) == TruthyStr(drop) /\ ~keep_first /\ data = <<>>

\* Lines 705-709.
drop_first(data, drop, keep_first) ==
  IF TruthyStr(drop) /\ ~keep_first /\ data /= <<>> THEN Tail(data) ELSE data

\* pandas.DataFrame(data), with the caller's "measurement" column: idx is
\* the frame's own row index.
DataFrame(data, measurement) ==
  [k \in 1..Len(data) |->
     [test |-> data[k].test, sample_index |-> data[k].sample_index,
      x |-> data[k].x, y |-> data[k].y, z |-> data[k].z,
      idx |-> k - 1, measurement |-> measurement]]

concat_reversed(frames) ==
  IF frames = <<>> THEN <<>>
  ELSE Flatten([k \in 1..Len(frames) |-> frames[Len(frames) + 1 - k]])

\* pandas.concat(frames, axis = 0).
concat(frames) == Flatten(frames)

\* pandas.concat(frames, axis = 0, ignore_index = True): the rows are
\* numbered anew, from 0.
concat_ignore_index(frames) ==
  LET t == concat(frames) IN [k \in 1..Len(t) |-> [t[k] EXCEPT !.idx = k - 1]]

\* DataFrame.sort_index(): rows in order of their index, ties in table order.
RECURSIVE sort_index(_)
sort_index(t) ==
  IF t = <<>> THEN <<>>
  ELSE LET lo == CHOOSE a \in {t[k].idx : k \in 1..Len(t)} :
                   \A b \in {t[k].idx : k \in 1..Len(t)} : a <= b
       IN SelectSeq(t, LAMBDA r : r.idx = lo)
          \o sort_index(SelectSeq(t, LAMBDA r : r.idx /= lo))

\* The test names _summarize_results groups by; the groupby raises KeyError
\* on a table that has no "test" column, which is a table without rows.
summary_tests(t) == {t[k].test : k \in 1..Len(t)}

SetMin(S) == CHOOSE a \in S : \A b \in S : a <= b
SetMax(S) == CHOOSE a \in S : \A b \in S : a >= b

summary_row_swapped(g) ==
  [min |-> SetMin({g[k].z : k \in 1..Len(g)}), max |-> SetMax({g[k].z : k \in 1..Len(g)}),
   first |-> g[1].z, last |-> g[Len(g)].z, count |-> Len(g),
   range |-> g[Len(g)].z - g[1].z,
   drift |-> SetMax({g[k].z : k \in 1..Len(g)}) - SetMin({g[k].z : k \in 1..Len(g)})]

\* Lines 715-719: the aggregates of one group g of rows (mean and std are
\* left out), then the two derived columns.
summary_row(g) ==
  LET zs == {g[k].z : k \in 1..Len(g)}
      agg == [min |-> SetMin(zs), max |-> SetMax(zs),
              first |-> g[1].z, last |-> g[Len(g)].z, count |-> Len(g)]
  IN [min |-> agg.min, max |-> agg.max, first |-> agg.first, last |-> agg.last,
      count |-> agg.count,
      range |-> agg["max"] - agg["min"],
      drift |-> agg["last"] - agg["first"]]

\* _summarize_results: one row per test name, over its rows in table order.
summarize_results(t) ==
  [name \in summary_tests(t) |-> summary_row(SelectSeq(t, LAMBDA r : r.test = name))]

\* Lines 729-734 of _summarize_repeatability: the configured samples_result,
\* "mean" unless it is "median", and "mean" when the lookup raises (no
\* [probe] section, or sw: an interrupt caught by the bare except).
agg_method(h, sw) ==
  IF sw \/ ~h.has_probe THEN "mean"
  ELSE IF h.samples_result /= "median" THEN "mean" ELSE "median"

RECURSIVE Sum(_)
Sum(zs) == IF zs = <<>> THEN 0 ELSE Head(zs) + Sum(Tail(zs))

\* The values zs in ascending order.
RECURSIVE Sorted(_)
Sorted(zs) ==
  IF zs = <<>> THEN <<>>
  ELSE LET lo == SetMin({zs[k] : k \in 1..Len(zs)})
           at == CHOOSE k \in 1..Len(zs) : zs[k] = lo
       IN << lo >> \o Sorted(SubSeq(zs, 1, at - 1) \o SubSeq(zs, at + 1, Len(zs)))

\* Series.agg("mean") and Series.agg("median") of the values zs, held in
\* twelfths so that the result is exact for groups of 1, 2, 3, 4 or 6 values.
agg_z(method, zs) ==
  IF method = "median"
  THEN LET so == Sorted(zs)
           h == Len(zs) \div 2
       IN IF Len(zs) % 2 = 1 THEN 12 * so[h + 1] ELSE 6 * (so[h] + so[h + 1])
  ELSE (12 * Sum(zs)) \div Len(zs)

first_sample_dropped_never(t) == 0

\* Lines 739-741.
first_sample_dropped(t) ==
  IF SetMin({t[k].sample_index : k \in 1..Len(t)}) = 1 THEN 1 ELSE 0

\* Lines 743-759: entry i + 1 is computed from the rows whose sample_index
\* is at most i + first_sample_dropped, grouped by measurement label.
summarize_repeatability(t, method) ==
  LET n == Cardinality({t[k].sample_index : k \in 1..Len(t)})
  IN [i1 \in 1..n |->
        LET sub == SelectSeq(t, LAMBDA r : r.sample_index <= (i1 - 1) + first_sample_dropped(t))
            by == {sub[k].measurement : k \in 1..Len(sub)}
            zs(m) == LET g == SelectSeq(sub, LAMBDA r : r.measurement = m)
                     IN [k \in 1..Len(g) |-> g[k].z]
            aggs == {agg_z(method, zs(m)) : m \in by}
            lo == IF aggs = {} THEN NONE ELSE SetMin(aggs)
            hi == IF aggs = {} THEN NONE ELSE SetMax(aggs)
        IN [sample_count |-> i1, rows |-> sub, min |-> lo, max |-> hi,
            range |-> hi - lo]]

\* float() of the typed decimals gives binary doubles. For these triples
\* (start, stop, step) the double quotient (stop - start) / step lands
\* above its exact integer value: (1.1 - 1) / 0.1 is 1.0000000000000009
\* and (1.3 - 1) / 0.3 is 1.0000000000000002.
QuotientAbove == { << 10, 11, 1 >>, << 10, 13, 3 >> }

\* The number of elements of numpy.arange: the ceiling of the double
\* quotient.
arange_len(start, stop, step) ==
  ((stop - start + step - 1) \div step)
    + (IF << start, stop, step >> \in QuotientAbove THEN 1 ELSE 0)

\* numpy.arange(start, stop, step): start + k*step for k below arange_len
\* (nothing for a negative step and stop >= start; a zero step raises, see
\* test_speedtest). For the triples of QuotientAbove the double sum
\* start + step equals the double stop.
arange(start, stop, step) ==
  IF stop < start \/ step <= 0 THEN <<>>
  ELSE [k \in 1..arange_len(start, stop, step) |-> start + (k - 1) * step]

\* Lines 613-615 of _speedcheck.
speed_asserts(r) == r.step > 0 /\ r.start >= MinSpeed /\ r.stop >= r.start

\* Lines 573-574.
speed_list(r) == Append(arange(r.start, r.stop, r.step), r.stop)

input_error_status1 == "exit1"

\* Lines 575-578: any exception of the prompts, of _speedcheck or of
\* arange ends in sys.exit(0).
input_error == "exit0"

(***************************************************************************)
(* Inputs: the controller (its configuration as the script reads it) and   *)
(* the command line.                                                       *)
(***************************************************************************)
\* The bounds written in [bed_mesh] mesh_min and mesh_max.
MeshMin == << 1, 1 >>
MeshMax == << 5, 5 >>

\* offset is (x_offset, y_offset) of the first section present among probe,
\* idm, cartographer, beacon.
BasePrinter ==
  [mesh_min |-> MeshMin, mesh_max |-> MeshMax, offset |-> << 0, 0 >>,
   dock_x |-> NONE, probe_type |-> "absent", idm |-> NONE, beacon |-> NONE,
   cartographer |-> NONE, endstop |-> "absent", zhop |-> NONE,
   leveling |-> "none", has_probe |-> TRUE, drop_first |-> "absent",
   samples_result |-> "absent",
   bed_mesh |-> TRUE, toolhead |-> TRUE,
   safe_z_var |-> 5, homed |-> FALSE, applied |-> FALSE]

Klicky == [BasePrinter EXCEPT !.dock_x = 1]
Klippain == [BasePrinter EXCEPT !.probe_type = "dockable"]
Tap == [BasePrinter EXCEPT !.endstop = "virtual"]
Beacon == [BasePrinter EXCEPT !.beacon = 1, !.has_probe = FALSE]

\* The controllers of the model: fields of the configuration, and homed,
\* applied and safe_z_var, the state the controller reports when queried.
Printers ==
  { [Klicky EXCEPT !.leveling = "quad_gantry_level", !.drop_first = "True"],
    [Klicky EXCEPT !.leveling = "z_tilt", !.safe_z_var = NONE, !.applied = TRUE,
                   !.homed = TRUE],
    [Klippain EXCEPT !.leveling = "z_tilt", !.drop_first = "True",
                     !.offset = << -1, 1 >>],
    [Tap EXCEPT !.zhop = 5, !.drop_first = "False", !.homed = TRUE,
                !.samples_result = "median"],
    [Tap EXCEPT !.leveling = "quad_gantry_level", !.applied = TRUE,
                !.mesh_min = << -1, 1 >>, !.offset = << 1, 0 >>],
    [Beacon EXCEPT !.leveling = "quad_gantry_level"],
    [BasePrinter EXCEPT !.idm = 0, !.endstop = "virtual"],
    [BasePrinter EXCEPT !.endstop = "pin"],
    [Klicky EXCEPT !.bed_mesh = FALSE] }

BasePlan ==
  [corner |-> NONE, repeatability |-> NONE, drift |-> NONE, speedtest |-> FALSE,
   force_dock |-> FALSE, retract |-> NONE, speed |-> NONE, keep_first |-> FALSE,
   export_csv |-> FALSE, detect_probe |-> FALSE]

\* The command lines of the model.
Plans ==
  {
    [BasePlan EXCEPT !.corner = 3, !.export_csv = TRUE],
    [BasePlan EXCEPT !.corner = 0, !.drift = 2, !.keep_first = TRUE],
    [BasePlan EXCEPT !.drift = 2, !.speedtest = TRUE, !.export_csv = TRUE],
    [BasePlan EXCEPT !.speedtest = TRUE, !.force_dock = TRUE, !.speed = 50],
    [BasePlan EXCEPT !.repeatability = 1, !.force_dock = TRUE, !.retract = 2],
    [BasePlan EXCEPT !.corner = 12, !.speedtest = TRUE, !.keep_first = TRUE],
    [BasePlan EXCEPT !.detect_probe = TRUE] }

\* What the operator types at the three speed prompts: numbers, or text
\* that float() rejects (malformed).
SpeedInputs ==
  { [start |-> 10, stop |-> 10, step |-> 10, malformed |-> FALSE],
    [start |-> 10, stop |-> 40, step |-> 20, malformed |-> FALSE],
    [start |-> 10, stop |-> 11, step |-> 1, malformed |-> FALSE],
    [start |-> 350, stop |-> 350, step |-> 10, malformed |-> FALSE],
    [start |-> 0, stop |-> 20, step |-> 10, malformed |-> FALSE],
    [start |-> 20, stop |-> 10, step |-> 10, malformed |-> FALSE],
    [start |-> 10, stop |-> 20, step |-> 0, malformed |-> FALSE],
    [start |-> 10, stop |-> 20, step |-> 10, malformed |-> TRUE] }

NoSpeeds == [start |-> NONE, stop |-> NONE, step |-> NONE, malformed |-> FALSE]

\* What the operator types at the safe-height prompt.
SafeZInputs == {EmptyStr, 7}

\* What the operator types at the confirmation prompt.
ConfirmInputs == {"y", "n", "x"}

\* The axis limits the toolhead reports, and the mesh corners minus offset.
AxisMin == << 0, 0 >>
AxisMax == << 6, 6 >>

\* Printer._get_bed_center.
get_bed_center(lo, hi) == << (lo[1] + hi[1]) \div 2, (lo[2] + hi[2]) \div 2 >>

\* Printer._get_bed_corners, for mesh bounds lo, hi and probe offset off.
get_bed_corners(lo, hi, off) ==
  << << lo[1] - off[1], hi[2] - off[2] >>, << hi[1] - off[1], hi[2] - off[2] >>,
     << lo[1] - off[1], lo[2] - off[2] >>, << hi[1] - off[1], lo[2] - off[2] >> >>

\* The points numpy.random.random() can give _get_random_loc.
RandomLocs == { << 2, 4 >> }

VARIABLES
  plan,        \* userparams, then the Test_suite's fields
  hw,          \* the controller's configuration
  pc,          \* the statement the script is at
  stack,       \* where the calls in progress return to
  phase,       \* "init", "body" (main's try), "cleanup" (its finally), "exited"
  pending,     \* the exception the finally block re-raises: "none", "exit0", "exit1", "error"
  status,      \* the exit status, NONE while the process runs
  interrupted, \* a KeyboardInterrupt reached main's handler
  swallowed,   \* KeyboardInterrupts caught by a bare except
  probe,       \* Probe's four flags
  safe_z,      \* Printer.safe_z
  bed_center, bed_corners,
  corner,      \* Test_suite.corner
  testframes,  \* Test_suite.testframes
  dataframes,  \* the running scenario's list of frames
  scenario,    \* the scenario that is running
  mark,        \* Len(cmds) when it started
  i, j,        \* loop counters of the scenario
  speedrange, confirm, speeds,
  cur,         \* the arguments of the running _test_probe
  target,      \* the arguments of the running move
  force,       \* the argument of the running level_bed
  start_time,  \* _test_probe's watermark
  log, clock,  \* the controller's gcode store and its clock
  applied,     \* the controller's leveling state
  cmds,        \* every script sent, in order
  faults,      \* acquisitions answered other than nominally
  summaries,   \* the scenario tables _summarize_results was given
  suite        \* run()'s suite table, its summary, and whether they were exported

vars == << plan, hw, pc, stack, phase, pending, status, interrupted, swallowed,
           probe, safe_z, bed_center, bed_corners, corner, testframes, dataframes,
           scenario, mark, i, j, speedrange, confirm, speeds, cur, target, force,
           start_time, log, clock, applied, cmds, faults, summaries, suite >>

NoCall == [probe_count |-> NONE, testname |-> << "none", NONE >>,
           measurement |-> << "none", NONE >>, speed |-> NONE]

NoSuite == [done |-> FALSE, frame |-> <<>>, tests |-> {}, summary |-> <<>>,
            exported |-> FALSE]

Init ==
  /\ plan \in Plans
  /\ hw \in Printers
  /\ pc = "Printer"
  /\ stack = <<>>
  /\ phase = "init"
  /\ pending = "none"
  /\ status = NONE
  /\ interrupted = FALSE
  /\ swallowed = 0
  /\ probe = NoProbe
  /\ safe_z = NONE
  /\ bed_center = << NONE, NONE >>
  /\ bed_corners = <<>>
  /\ corner = NONE
  /\ testframes = <<>>
  /\ dataframes = <<>>
  /\ scenario = "none"
  /\ mark = 0
  /\ i = 0
  /\ j = 0
  /\ speedrange = NoSpeeds
  /\ confirm = "none"
  /\ speeds = <<>>
  /\ cur = NoCall
  /\ target = << NONE, NONE >>
  /\ force = FALSE
  /\ start_time = NONE
  /\ log = <<>>
  /\ clock = 0
  /\ applied = hw.applied
  /\ cmds = <<>>
  /\ faults = 0
  /\ summaries = <<>>
  /\ suite = NoSuite

(***************************************************************************)
(* Effects shared by the steps.                                            *)
(***************************************************************************)
ctrl == << pc, stack, phase, pending, status >>
printer == << probe, safe_z, bed_center, bed_corners >>
loops == << i, j, speedrange, confirm, speeds, cur >>
tables == << testframes, dataframes, summaries, suite >>
store == << log, clock, applied, cmds >>

Entries(kinds, t0, beacon, xy) ==
  [k \in 1..Len(kinds) |->
     [time |-> t0 + k, kind |-> kinds[k],
      nums |-> IF kinds[k] = "sample" THEN line_nums(beacon, xy[1], xy[2], k) ELSE <<>>]]

\* Printer.gcode: the scripts reach the controller, which stores each of
\* them, and after them the lines it answers with.
gcode(scripts, lines) ==
  /\ cmds' = cmds \o scripts
  /\ log' = Store(log \o Entries([k \in 1..Len(scripts) |-> "command"], clock, FALSE, target)
                      \o Entries(lines, clock + Len(scripts), probe.isBeacon, target))
  /\ clock' = clock + Len(scripts) + Len(lines)
  /\ applied' = (applied \/ \E k \in 1..Len(scripts) : IsLevel(scripts[k]))

Goto(l) == pc' = l /\ UNCHANGED << stack, phase, pending, status >>

Return ==
  /\ pc' = Head(stack)
  /\ stack' = Tail(stack)
  /\ UNCHANGED << phase, pending, status >>

\* An exception leaves main's try block: the finally block runs next and
\* re-raises it.
Raise(kind) ==
  /\ pc' = "finally"
  /\ stack' = <<>>
  /\ phase' = "cleanup"
  /\ pending' = kind
  /\ UNCHANGED status

\* The process ends outside main's try block.
Exit(code) ==
  /\ pc' = "exit"
  /\ stack' = <<>>
  /\ phase' = "exited"
  /\ status' = code
  /\ UNCHANGED pending

\* The exit status once the finally block has run.
exit_code(p) == IF p \in {"exit1", "error"} THEN 1 ELSE 0

\* Printer.query's bare `except:` (line 194) also catches a KeyboardInterrupt
\* raised while the answer is unpacked: the query then returns None.
Swallow(sw) ==
  /\ sw => (phase = "body" /\ faults + swallowed < MaxFaults)
  /\ swallowed' = IF sw THEN swallowed + 1 ELSE swallowed

\* Printer.query: the value the controller reports, None when swallowed.
query(value, sw, absent) == IF sw THEN absent ELSE value

\* Test_suite.run's if-chain: the first requested scenario after the k-th.
next_scenario(k, p, c) ==
  IF k < 1 /\ Truthy(c) THEN "test_corner"
  ELSE IF k < 2 /\ Truthy(p.repeatability) THEN "test_repeatability"
  ELSE IF k < 3 /\ Truthy(p.drift) THEN "test_drift"
  ELSE IF k < 4 /\ p.speedtest THEN "test_speedtest"
  ELSE "run_end"

(***************************************************************************)
(* Printer.__init__ and main, up to the try block.                         *)
(***************************************************************************)
\* Lines 163-168: the configuration queries and Probe._detect.
Printer ==
  /\ pc = "Printer"
  /\ probe' = detect(hw)
  /\ Goto("get_bed")
  /\ UNCHANGED << plan, hw, interrupted, swallowed, safe_z, bed_center, bed_corners,
                  corner, scenario, mark, force, target, start_time, faults >>
  /\ UNCHANGED << loops, tables, store >>

\* Lines 170-172: _get_bed_center and _get_bed_corners raise when the
\* toolhead, the mesh or every probe section is missing.
get_bed ==
  /\ pc = "get_bed"
  /\ IF hw.toolhead /\ hw.bed_mesh
        /\ (hw.has_probe \/ hw.idm /= NONE \/ hw.cartographer /= NONE \/ hw.beacon /= NONE)
     THEN /\ bed_center' = get_bed_center(AxisMin, AxisMax)
          /\ bed_corners' = get_bed_corners(findall(hw.mesh_min), findall(hw.mesh_max),
                                            hw.offset)
          /\ Goto("main")
     ELSE /\ Exit(1)
          /\ UNCHANGED << bed_center, bed_corners >>
  /\ UNCHANGED << plan, hw, interrupted, swallowed, probe, safe_z,
                  corner, scenario, mark, force, target, start_time, faults >>
  /\ UNCHANGED << loops, tables, store >>

\* Lines 856-860.
main ==
  /\ pc = "main"
  /\ IF ~is_present(probe) THEN Exit(1)
     ELSE IF plan.detect_probe THEN Exit(0)
     ELSE /\ pc' = "conditional_home"
          /\ phase' = "body"
          /\ UNCHANGED << stack, pending, status >>
  /\ UNCHANGED << plan, hw, interrupted, swallowed, corner, scenario, mark,
                  force, target, start_time, faults >>
  /\ UNCHANGED << printer, loops, tables, store >>

\* Lines 209-213 and 262-264; then main's move_center (line 862).
conditional_home ==
  /\ pc = "conditional_home"
  /\ \E sw \in BOOLEAN :
       LET homed_axes == query(IF hw.homed THEN "xyz" ELSE "", sw, "absent")
       IN /\ Swallow(sw)
          /\ IF homed_axes /= "xyz" THEN Goto("home")
             ELSE /\ pc' = "move_center"
                  /\ stack' = << "Test_suite" >>
                  /\ UNCHANGED << phase, pending, status >>
  /\ UNCHANGED << plan, hw, interrupted, corner, scenario, mark,
                  force, target, start_time, faults >>
  /\ UNCHANGED << printer, loops, tables, store >>

home ==
  /\ pc = "home"
  /\ gcode(<< G("G28") >>, <<>>)
  /\ pc' = "move_center"
  /\ stack' = << "Test_suite" >>
  /\ UNCHANGED << phase, pending, status >>
  /\ UNCHANGED << plan, hw, interrupted, swallowed, corner, scenario, mark,
                  force, target, start_time, faults >>
  /\ UNCHANGED << printer, loops, tables >>

(***************************************************************************)
(* Printer.move (lines 215-231, 266-318).                                  *)
(***************************************************************************)
FeedRate == 99999

\* Line 291: the height is memoized.
safe_z_known(z) == Truthy(z)

memo_skips_move(z) == <<>>

\* Line 318, reached with the height memoized: the move is still sent.
memo_scripts(z) == move_scripts(NONE, NONE, z, NONE)

\* Printer.move's first step: with the height memoized, _move(z = safe_z);
\* otherwise the variant's source is read (lines 291-309).
move ==
  /\ pc \in {"move", "move_center"}
  /\ target' = IF pc = "move_center" THEN bed_center ELSE target
  /\ IF safe_z_known(safe_z)
     THEN /\ gcode(memo_scripts(safe_z), <<>>)
          /\ Goto("move_xy")
          /\ UNCHANGED << safe_z, swallowed >>
     ELSE /\ \/ /\ probe.isKlicky \/ probe.isKlippain
                /\ \E sw \in BOOLEAN :
                     /\ Swallow(sw)
                     /\ safe_z' = query(hw.safe_z_var, sw, NONE)
             \/ /\ ~(probe.isKlicky \/ probe.isKlippain)
                /\ safe_z' = IF probe.isTap THEN hw.zhop
                             ELSE IF probe.isBeacon THEN BeaconSafeZ ELSE safe_z
                /\ UNCHANGED swallowed
          /\ Goto(IF Truthy(safe_z') THEN "safe_z_move" ELSE "safe_z_input")
          /\ UNCHANGED store
  /\ UNCHANGED << plan, hw, interrupted, probe, bed_center, bed_corners, corner,
                  scenario, mark, force, start_time, faults >>
  /\ UNCHANGED << loops, tables >>

\* Line 316: the operator is asked for the height.
safe_z_input ==
  /\ pc = "safe_z_input"
  /\ \E z \in SafeZInputs :
       /\ ~Truthy(z) => faults + swallowed < MaxFaults
       /\ faults' = IF Truthy(z) THEN faults ELSE faults + 1
       /\ safe_z' = z
  /\ Goto("safe_z_move")
  /\ UNCHANGED << plan, hw, interrupted, swallowed, probe, bed_center, bed_corners,
                  corner, scenario, mark, force, target, start_time >>
  /\ UNCHANGED << loops, tables, store >>

\* Line 318.
safe_z_move ==
  /\ pc = "safe_z_move"
  /\ gcode(move_scripts(NONE, NONE, safe_z, NONE), <<>>)
  /\ Goto("move_xy")
  /\ UNCHANGED << plan, hw, interrupted, swallowed, corner, scenario, mark,
                  force, target, start_time, faults >>
  /\ UNCHANGED << printer, loops, tables >>

\* Line 225: the lateral move; move returns, and when it was the finally
\* block's move_center the process ends.
move_xy ==
  /\ pc = "move_xy"
  /\ gcode(move_scripts(target[1], target[2], NONE, FeedRate), <<>>)
  /\ IF Head(stack) = "exit"
     THEN Exit(exit_code(pending))
     ELSE Return
  /\ UNCHANGED << plan, hw, interrupted, swallowed, corner, scenario, mark,
                  force, target, start_time, faults >>
  /\ UNCHANGED << printer, loops, tables >>

(***************************************************************************)
(* Test_suite (lines 386-442) and Printer.level_bed (lines 233-256).       *)
(***************************************************************************)
\* Lines 864-878: the defaults when no scenario was requested, the
\* Test_suite's construction, and run()'s first scenario.
Test_suite ==
  /\ pc = "Test_suite"
  /\ LET p == IF ~(Truthy(plan.corner) \/ Truthy(plan.repeatability)
                   \/ Truthy(plan.drift) \/ plan.speedtest)
              THEN [plan EXCEPT !.corner = DefaultCorner,
                                !.repeatability = DefaultRepeat,
                                !.drift = DefaultDrift]
              ELSE plan
     IN /\ plan' = p
        /\ corner' = p.corner
        /\ Goto(next_scenario(0, p, p.corner))
  /\ UNCHANGED << hw, interrupted, swallowed, scenario, mark, force, target,
                  start_time, faults >>
  /\ UNCHANGED << printer, loops, tables, store >>

\* Line 254.
needs_level(leveled, forced) == (~Truthy(leveled)) \/ forced

\* level_bed's query of the configured subsystem (lines 235-252).
level_bed ==
  /\ pc = "level_bed"
  /\ IF hw.leveling = "none"
     THEN Return /\ UNCHANGED swallowed
     ELSE \E sw \in BOOLEAN :
            LET leveled == query(IF applied THEN 1 ELSE 0, sw, NONE)
            IN /\ Swallow(sw)
               /\ IF needs_level(leveled, force) THEN Goto("level_cmd") ELSE Return
  /\ UNCHANGED << plan, hw, interrupted, corner, scenario, mark, force, target,
                  start_time, faults >>
  /\ UNCHANGED << printer, loops, tables, store >>

\* Lines 254-256.
level_cmd ==
  /\ pc = "level_cmd"
  /\ gcode(<< G(IF hw.leveling = "z_tilt" THEN "z_tilt_adjust" ELSE "quad_gantry_level") >>, <<>>)
  /\ Return
  /\ UNCHANGED << plan, hw, interrupted, swallowed, corner, scenario, mark, force,
                  target, start_time, faults >>
  /\ UNCHANGED << printer, loops, tables >>

scenario_lock_none(p, force_dock) == <<>>

\* A scenario's lock (lines 457-458, 496-497, 581-582).
scenario_lock(p, force_dock) == IF force_dock THEN <<>> ELSE lock_scripts(p, TRUE)

\* A scenario's unlock (lines 476-477, 518-519, 599-600).
scenario_unlock(p, force_dock) == IF force_dock THEN <<>> ELSE unlock_scripts(p, TRUE)

(***************************************************************************)
(* Test_suite._test_probe (lines 627-711).                                 *)
(***************************************************************************)
\* Line 644: the time of the newest log entry.
tp_watermark ==
  /\ pc = "tp_watermark"
  /\ IF log = <<>>
     THEN Raise("error") /\ UNCHANGED start_time
     ELSE start_time' = Last(get_gcode_store(log, 1)).time /\ Goto("tp_command")
  /\ UNCHANGED << plan, hw, interrupted, swallowed, corner, scenario, mark, force,
                  target, faults >>
  /\ UNCHANGED << printer, loops, tables, store >>

\* Lines 646-653: the command; the controller writes its answer.
tp_command ==
  /\ pc = "tp_command"
  /\ \E answer \in Answers :
       /\ answer /= Nominal => faults + swallowed < MaxFaults
       /\ faults' = IF answer = Nominal THEN faults ELSE faults + 1
       /\ gcode(<< probe_script(cur.probe_count, plan.retract, cur.speed, plan.speed) >>,
                answer)
  /\ Goto("tp_tail")
  /\ UNCHANGED << plan, hw, interrupted, swallowed, corner, scenario, mark, force,
                  target, start_time >>
  /\ UNCHANGED << printer, loops, tables >>

\* The first message check_error does not return from, if any (lines 673-677).
err_outcome(errs) ==
  IF \E k \in 1..Len(errs) : check_error(errs[k]) /= "return"
  THEN check_error(errs[CHOOSE k \in 1..Len(errs) :
                          /\ check_error(errs[k]) /= "return"
                          /\ \A m \in 1..(k - 1) : check_error(errs[m]) = "return"])
  ELSE "return"

\* Where the caller's loop goes once _test_probe has returned and its frame
\* is appended: ii and jj are the counters of the next iteration (jj = 0
\* when the inner loop of the repeatability scenario has ended).
after_probe(scn, ii, jj, rounds, nspeeds) ==
  CASE scn = "corner" -> IF ii < 4 THEN "corner_loop" ELSE "corner_end"
    [] scn = "repeatability" ->
         IF jj /= 0 THEN "repeat_random"
         ELSE IF ii < rounds THEN "repeat_round" ELSE "repeat_end"
    [] scn = "drift" -> "drift_end"
    [] OTHER -> IF ii < nspeeds THEN "speed_loop" ELSE "speed_end"

\* Lines 655-711: the log is fetched and parsed; the frame goes to the
\* caller, which labels and appends it.
tp_tail ==
  /\ pc = "tp_tail"
  /\ LET errs == err_msgs(log, start_time)
         ms == msgs(log, start_time)
         failed == err_outcome(errs)
     IN IF failed = "exit"
        THEN Raise("exit1") /\ UNCHANGED << dataframes, i, j, swallowed >>
        ELSE IF failed /= "return"
        THEN Raise("error") /\ UNCHANGED << dataframes, i, j, swallowed >>
        ELSE IF \E k \in 1..Len(ms) : ~unpacks(probe.isBeacon, ms[k].nums)
        THEN Raise("error") /\ UNCHANGED << dataframes, i, j, swallowed >>
        ELSE IF no_measurements(parse(ms, cur.testname, probe.isBeacon))
        THEN Raise("exit1") /\ UNCHANGED << dataframes, i, j, swallowed >>
        ELSE \E sw \in BOOLEAN :
          LET drop == IF sw THEN "" ELSE printer_config_drop_first(hw)
              rows == parse(ms, cur.testname, probe.isBeacon)
              data == drop_first(rows, drop, keep_first_arg(plan))
              inner == scenario = "repeatability"
              jj == IF inner THEN (IF j + 1 < RandomMoves THEN j + 1 ELSE 0) ELSE j
              ii == IF inner THEN (IF j + 1 < RandomMoves THEN i ELSE i + 1) ELSE i + 1
          IN /\ Swallow(sw)
             /\ IF pop_fails(rows, drop, keep_first_arg(plan))
                THEN Raise("error") /\ UNCHANGED << dataframes, i, j >>
                ELSE /\ dataframes' = Append(dataframes, DataFrame(data, cur.measurement))
                     /\ i' = ii
                     /\ j' = jj
                     /\ Goto(after_probe(scenario, ii, jj, plan.repeatability, Len(speeds)))
  /\ UNCHANGED << plan, hw, interrupted, corner, scenario, mark, force, target,
                  start_time, faults, speedrange, confirm, speeds, cur,
                  testframes, summaries, suite >>
  /\ UNCHANGED << printer, store >>

(***************************************************************************)
(* The four scenarios (lines 445-609).                                     *)
(***************************************************************************)
Begin(name) ==
  /\ scenario' = name
  /\ mark' = Len(cmds)
  /\ dataframes' = <<>>
  /\ i' = 0
  /\ j' = 0

\* Lines 452-456: the clamp, then level_bed(force = True).
test_corner ==
  /\ pc = "test_corner"
  /\ Begin("corner")
  /\ corner' = IF corner < MinCorner THEN MinCorner ELSE corner
  /\ force' = TRUE
  /\ pc' = "level_bed"
  /\ stack' = << "corner_lock" >>
  /\ UNCHANGED << phase, pending, status >>
  /\ UNCHANGED << plan, hw, interrupted, swallowed, target, start_time, faults,
                  speedrange, confirm, speeds, cur, testframes, summaries, suite >>
  /\ UNCHANGED << printer, store >>

\* Lines 457-458.
corner_lock ==
  /\ pc = "corner_lock"
  /\ gcode(scenario_lock(probe, plan.force_dock), <<>>)
  /\ Goto("corner_loop")
  /\ UNCHANGED << plan, hw, interrupted, swallowed, corner, scenario, mark, force,
                  target, start_time, faults >>
  /\ UNCHANGED << printer, loops, tables >>

\* Lines 465-471: testname and measurement label carry the corner's number
\* and its coordinates.
corner_label(n, xy) == << "corner", n + 1, xy[1], xy[2] >>

\* Lines 462-471: the display message, then _test_probe at corner i + 1.
corner_loop ==
  /\ pc = "corner_loop"
  /\ gcode(<< [G("M117") EXCEPT !.n = i + 1] >>, <<>>)
  /\ cur' = [probe_count |-> corner, testname |-> corner_label(i, bed_corners[i + 1]),
             measurement |-> corner_label(i, bed_corners[i + 1]), speed |-> NONE]
  /\ target' = bed_corners[i + 1]
  /\ pc' = "move"
  /\ stack' = << "tp_watermark" >>
  /\ UNCHANGED << phase, pending, status >>
  /\ UNCHANGED << plan, hw, interrupted, swallowed, corner, scenario, mark, force,
                  start_time, faults, i, j, speedrange, confirm, speeds >>
  /\ UNCHANGED << printer, tables >>

\* The end of a scenario: the unlock, the scenario's table (sorted by row
\* index when sorted is set), its summary, for the repeatability scenario
\* the progression, and the append to testframes.
Finish(k, sorted, method) ==
  /\ gcode(scenario_unlock(probe, plan.force_dock), <<>>)
  /\ LET testframe == IF sorted THEN sort_index(concat(dataframes)) ELSE concat(dataframes)
     IN IF testframe = <<>>
        THEN Raise("error") /\ UNCHANGED << summaries, testframes >>
        ELSE /\ summaries' = Append(summaries,
                                     [scope |-> scenario,
                                      tests |-> summary_tests(testframe),
                                      rows |-> summarize_results(testframe),
                                      progression |->
                                        IF sorted
                                        THEN summarize_repeatability(testframe, method)
                                        ELSE <<>>])
             /\ testframes' = Append(testframes, testframe)
             /\ Goto(next_scenario(k, plan, corner))

\* Lines 476-486.
corner_end ==
  /\ pc = "corner_end"
  /\ Finish(1, FALSE, "none")
  /\ UNCHANGED << plan, hw, interrupted, swallowed, corner, scenario, mark, force,
                  target, start_time, faults, dataframes, suite >>
  /\ UNCHANGED << printer, loops >>

\* Lines 496-497.
test_repeatability ==
  /\ pc = "test_repeatability"
  /\ Begin("repeatability")
  /\ gcode(scenario_lock(probe, plan.force_dock), <<>>)
  /\ Goto("repeat_round")
  /\ UNCHANGED << plan, hw, interrupted, swallowed, corner, force, target, start_time,
                  faults, speedrange, confirm, speeds, cur, testframes, summaries, suite >>
  /\ UNCHANGED printer

\* Lines 502-506: a round's display message.
repeat_round ==
  /\ pc = "repeat_round"
  /\ gcode(<< [G("M117") EXCEPT !.n = i + 1] >>, <<>>)
  /\ Goto("repeat_random")
  /\ UNCHANGED << plan, hw, interrupted, swallowed, corner, scenario, mark, force,
                  target, start_time, faults >>
  /\ UNCHANGED << printer, loops, tables >>

\* Lines 508-513: move_random (its two toolhead queries, then the move),
\* then _test_probe at bed center.
repeat_random ==
  /\ pc = "repeat_random"
  /\ \E sw \in BOOLEAN, xy \in RandomLocs :
       /\ Swallow(sw)
       /\ IF query(hw.toolhead, sw, FALSE)
          THEN /\ target' = xy
               /\ cur' = [probe_count |-> RepeatCount,
                          testname |-> << "repeatability", j + 1 >>,
                          measurement |-> << "repeatability", j + 1 >>,
                          speed |-> NONE]
               /\ pc' = "move"
               /\ stack' = << "move_center", "tp_watermark" >>
               /\ UNCHANGED << phase, pending, status >>
          ELSE Raise("error") /\ UNCHANGED << target, cur >>
  /\ UNCHANGED << plan, hw, interrupted, corner, scenario, mark, force,
                  start_time, faults, i, j, speedrange, confirm, speeds >>
  /\ UNCHANGED << printer, tables, store >>

\* Lines 518-529; _summarize_repeatability's bare except (line 733) can
\* swallow an interrupt too.
repeat_end ==
  /\ pc = "repeat_end"
  /\ \E sw \in BOOLEAN :
       /\ sw => concat(dataframes) /= <<>>
       /\ Swallow(sw)
       /\ Finish(2, TRUE, agg_method(hw, sw))
  /\ UNCHANGED << plan, hw, interrupted, corner, scenario, mark, force,
                  target, start_time, faults, dataframes, suite >>
  /\ UNCHANGED << printer, loops >>

\* Lines 536-539.
test_drift ==
  /\ pc = "test_drift"
  /\ Begin("drift")
  /\ cur' = [probe_count |-> plan.drift, testname |-> << "drift", plan.drift >>,
             measurement |-> << "", NONE >>, speed |-> NONE]
  /\ pc' = "move_center"
  /\ stack' = << "tp_watermark" >>
  /\ UNCHANGED << phase, pending, status >>
  /\ UNCHANGED << plan, hw, interrupted, swallowed, corner, force, target, start_time,
                  faults, speedrange, confirm, speeds, testframes, summaries, suite >>
  /\ UNCHANGED << printer, store >>

\* Lines 541-557: the drift scenario locks nothing and unlocks nothing.
drift_end ==
  /\ pc = "drift_end"
  /\ LET testframe == concat(dataframes)
     IN IF testframe = <<>>
        THEN Raise("error") /\ UNCHANGED << summaries, testframes >>
        ELSE /\ summaries' = Append(summaries, [scope |-> scenario,
                                                 tests |-> summary_tests(testframe),
                                                 rows |-> summarize_results(testframe),
                                                 progression |-> <<>>])
             /\ testframes' = Append(testframes, testframe)
             /\ Goto(next_scenario(3, plan, corner))
  /\ UNCHANGED << plan, hw, interrupted, swallowed, corner, scenario, mark, force,
                  target, start_time, faults, dataframes, suite >>
  /\ UNCHANGED << printer, loops, store >>

\* Lines 564-578: the three prompts, _speedcheck's assertions and the speed
\* list; any exception ends in sys.exit(0).
test_speedtest ==
  /\ pc = "test_speedtest"
  /\ Begin("speedtest")
  /\ confirm' = "none"
  /\ \E r \in SpeedInputs :
       /\ speedrange' = r
       /\ IF r.malformed \/ ~speed_asserts(r) \/ r.step = 0
          THEN Raise(input_error) /\ UNCHANGED << speeds, force >>
          ELSE IF r.stop >= ConfirmSpeed
          THEN Goto("speed_confirm") /\ UNCHANGED << speeds, force >>
          ELSE /\ speeds' = speed_list(r)
               /\ force' = FALSE
               /\ pc' = "level_bed"
               /\ stack' = << "speed_lock" >>
               /\ UNCHANGED << phase, pending, status >>
  /\ UNCHANGED << plan, hw, interrupted, swallowed, corner, target, start_time,
                  faults, cur, testframes, summaries, suite >>
  /\ UNCHANGED << printer, store >>

\* What the confirmation loop of _speedcheck does with an answer
\* (lines 617-624).
confirm_any(a) == "go"

confirmed(a) == IF a = "y" THEN "go" ELSE IF a = "n" THEN "abort" ELSE "ask"

speed_confirm ==
  /\ pc = "speed_confirm"
  /\ \E a \in ConfirmInputs :
       /\ confirm' = a
       /\ CASE confirmed(a) = "go" ->
                 /\ speeds' = speed_list(speedrange)
                 /\ force' = FALSE
                 /\ pc' = "level_bed"
                 /\ stack' = << "speed_lock" >>
                 /\ UNCHANGED << phase, pending, status >>
            [] confirmed(a) = "abort" -> Raise(input_error) /\ UNCHANGED << speeds, force >>
            [] OTHER -> Goto("speed_confirm") /\ UNCHANGED << speeds, force >>
  /\ UNCHANGED << plan, hw, interrupted, swallowed, corner, scenario, mark, target,
                  start_time, faults, i, j, speedrange, cur >>
  /\ UNCHANGED << printer, tables, store >>

\* Lines 581-582.
speed_lock ==
  /\ pc = "speed_lock"
  /\ gcode(scenario_lock(probe, plan.force_dock), <<>>)
  /\ Goto("speed_loop")
  /\ UNCHANGED << plan, hw, interrupted, swallowed, corner, scenario, mark, force,
                  target, start_time, faults >>
  /\ UNCHANGED << printer, loops, tables >>

\* Lines 586-594.
speed_loop ==
  /\ pc = "speed_loop"
  /\ gcode(<< [G("M117") EXCEPT !.spd = speeds[i + 1]] >>, <<>>)
  /\ cur' = [probe_count |-> SpeedCount, testname |-> << "speedtest", speeds[i + 1] >>,
             measurement |-> << "speedtest", speeds[i + 1] >>, speed |-> speeds[i + 1]]
  /\ pc' = "move_center"
  /\ stack' = << "tp_watermark" >>
  /\ UNCHANGED << phase, pending, status >>
  /\ UNCHANGED << plan, hw, interrupted, swallowed, corner, scenario, mark, force,
                  target, start_time, faults, i, j, speedrange, confirm, speeds >>
  /\ UNCHANGED << printer, tables >>

\* Lines 599-609.
speed_end ==
  /\ pc = "speed_end"
  /\ Finish(4, FALSE, "none")
  /\ UNCHANGED << plan, hw, interrupted, swallowed, corner, scenario, mark, force,
                  target, start_time, faults, dataframes, suite >>
  /\ UNCHANGED << printer, loops >>

\* Lines 427-442: the suite table, its summary and the export; run()
\* returns and main's finally block is next.
run_end ==
  /\ pc = "run_end"
  /\ LET suiteframe == sort_index(concat_ignore_index(testframes))
     IN IF suiteframe = <<>>
        THEN Raise("error") /\ UNCHANGED suite
        ELSE /\ suite' = [done |-> TRUE, frame |-> suiteframe,
                          tests |-> summary_tests(suiteframe),
                          summary |-> summarize_results(suiteframe),
                          exported |-> plan.export_csv]
             /\ pc' = "finally"
             /\ phase' = "cleanup"
             /\ UNCHANGED << stack, pending, status >>
  /\ UNCHANGED << plan, hw, interrupted, swallowed, corner, scenario, mark, force,
                  target, start_time, faults, testframes, dataframes, summaries >>
  /\ UNCHANGED << printer, loops, store >>

(***************************************************************************)
(* main's except and finally (lines 879-883).                              *)
(***************************************************************************)
\* Line 882: printer.probe.unlock(), with the default unlock = False.
cleanup_unlock(p) == unlock_scripts(p, FALSE)

\* Lines 882-883.
finally ==
  /\ pc = "finally"
  /\ gcode(cleanup_unlock(probe), <<>>)
  /\ pc' = "move_center"
  /\ stack' = << "exit" >>
  /\ UNCHANGED << phase, pending, status >>
  /\ UNCHANGED << plan, hw, interrupted, swallowed, corner, scenario, mark, force,
                  target, start_time, faults >>
  /\ UNCHANGED << printer, loops, tables >>

\* Lines 879-880: a KeyboardInterrupt raised anywhere in the try block is
\* caught and dropped; the finally block runs.
Interrupt ==
  /\ phase = "body"
  /\ interrupted' = TRUE
  /\ Raise("none")
  /\ UNCHANGED << plan, hw, swallowed, corner, scenario, mark, force, target,
                  start_time, faults >>
  /\ UNCHANGED << printer, loops, tables, store >>

Next ==
  \/ Printer \/ get_bed \/ main \/ conditional_home \/ home
  \/ move \/ safe_z_input \/ safe_z_move \/ move_xy
  \/ Test_suite \/ level_bed \/ level_cmd
  \/ tp_watermark \/ tp_command \/ tp_tail
  \/ test_corner \/ corner_lock \/ corner_loop \/ corner_end
  \/ test_repeatability \/ repeat_round \/ repeat_random \/ repeat_end
  \/ test_drift \/ drift_end
  \/ test_speedtest \/ speed_confirm \/ speed_lock \/ speed_loop \/ speed_end
  \/ run_end \/ finally \/ Interrupt

Spec == Init /\ [][Next]_vars

(***************************************************************************)
(* Properties.                                                             *)
(***************************************************************************)
\* The labels _test_probe returns to, with its frame appended.
ReturnedTo == {"corner_loop", "corner_end", "repeat_random", "repeat_round",
               "repeat_end", "drift_end", "speed_loop", "speed_end"}

\* The sample lines of the acquisition that ran last.
Parsed == msgs(log, start_time)

\* An acquisition has just returned its frame to the scenario.
Returned == pc \in ReturnedTo /\ dataframes /= <<>> /\ start_time /= NONE

DropEnabled == hw.has_probe /\ hw.drop_first = "True"

Indices(f) == [k \in 1..Len(f) |-> f[k].sample_index]

Count(cs, P(_)) == Cardinality({k \in 1..Len(cs) : P(cs[k])})

\* Any script Probe.unlock can send.
IsUnlockCall(c) == c.op \in {"DOCK_PROBE_UNLOCK", "DEACTIVATE_PROBE", "DEACTIVATE_PROBE UNLOCK=true"}

\* A lock script with no lock-releasing script after it.
LockOutstanding(cs) ==
  \E k \in 1..Len(cs) : IsLock(cs[k]) /\ \A m \in (k + 1)..Len(cs) : ~IsUnlock(cs[m])

\* The scripts end with the safe-height move and the move to bed center.
Parked(cs) ==
  /\ Len(cs) >= 4
  /\ IsSafeZMove(cs[Len(cs) - 2])
  /\ IsLateral(cs[Len(cs)])
  /\ cs[Len(cs)].x = bed_center[1]
  /\ cs[Len(cs)].y = bed_center[2]

\* main entered its try block.
Began == phase \in {"body", "cleanup"} \/ (phase = "exited" /\ cmds /= <<>>)

\* C1: every lateral G0 is preceded by the G0 to the safe height of the same
\* move() call, with nothing but the G90 of _move between the two.
C1_SafeHeightBeforeLateral ==
  \A k \in 1..Len(cmds) :
    IsLateral(cmds[k]) =>
      /\ k >= 4
      /\ cmds[k].z = NONE
      /\ cmds[k - 1].op = "G90"
      /\ IsSafeZMove(cmds[k - 2])
      /\ cmds[k - 3].op = "G90"

C1_Witness ==
  /\ scenario = "corner"
  /\ pc = "tp_watermark"
  /\ IsLateral(Last(cmds))
  /\ Count(cmds, IsLateral) >= 3

\* C2: once main is in its try block, the process ends only after the
\* probe's lock is released and the head is parked at bed center; no lock
\* script is left without a later lock-releasing script.
C2_UnlockAndParkOnEveryExit ==
  (pc = "exit" /\ Began) =>
    /\ Parked(cmds)
    /\ ~LockOutstanding(cmds)
    /\ (probe.isKlicky \/ probe.isKlippain) => IsUnlockCall(cmds[Len(cmds) - 4])

\* C3: an interrupt delivered inside main's try block ends the run: the
\* cleanup follows at once, the exit status is 0, the interrupted scenario's
\* frames never reach testframes and no suite table is computed.
C3_InterruptEndsRunAndDiscards ==
  (interrupted \/ swallowed > 0) =>
    /\ phase \in {"cleanup", "exited"}
    /\ ~suite.done
    /\ pc = "exit" => status = 0

\* C4: with no probe detected no script is ever sent, and the process ends
\* with status 1.
C4_NoProbeNoCommand ==
  (pc /= "Printer" /\ probe = NoProbe) =>
    /\ cmds = <<>>
    /\ log = <<>>
    /\ phase \in {"init", "exited"}
    /\ pc = "exit" => status = 1

C4_Witness ==
  /\ pc = "exit"
  /\ status = 1
  /\ bed_corners /= <<>>
  /\ probe = NoProbe

\* C5: an acquisition that parses no sample line raises out of the try
\* block without appending or summarizing anything; from then on no
\* PROBE_ACCURACY is sent, no table changes, and the exit status is 1.
C5_NoSamplesIsFatal ==
  [][ /\ (pc = "tp_tail" /\ ~interrupted' /\ Parsed = <<>>) =>
           /\ pc' = "finally"
           /\ pending' \in {"exit1", "error"}
           /\ UNCHANGED tables
      /\ (pending \in {"exit1", "error"}) =>
           /\ pending' = pending
           /\ UNCHANGED tables
           /\ Count(cmds', IsProbeCmd) = Count(cmds, IsProbeCmd)
           /\ pc' = "exit" => status' = 1 ]_vars

C5_Witness ==
  /\ pc = "exit"
  /\ pending = "exit1"
  /\ status = 1
  /\ err_msgs(log, start_time) = <<>>
  /\ Parsed = <<>>

\* C6: with drop-first enabled and keep_first not requested, an acquisition
\* that saw N >= 2 sample lines returns N - 1 rows with indices 1..N-1.
C6_DropFirstKeepsIndices ==
  (Returned /\ swallowed = 0 /\ DropEnabled /\ ~plan.keep_first /\ Len(Parsed) >= 2) =>
    /\ Len(Last(dataframes)) = Len(Parsed) - 1
    /\ Indices(Last(dataframes)) = [k \in 1..(Len(Parsed) - 1) |-> k]

C6_Witness ==
  /\ Returned /\ swallowed = 0 /\ DropEnabled /\ ~plan.keep_first
  /\ Len(Parsed) >= 2
  /\ Len(Last(dataframes)) >= 1

\* C7: the sample with index 0 is missing from a returned frame exactly
\* when drop-first is enabled and keep_first was not requested.
C7_KeepFirstKeepsIndexZero ==
  (Returned /\ swallowed = 0 /\ Parsed /= <<>>) =>
    ((\A k \in 1..Len(Last(dataframes)) : Last(dataframes)[k].sample_index /= 0)
       <=> (DropEnabled /\ ~plan.keep_first))

\* C8: error lines do not stop the parsing: an acquisition that finds error
\* lines and sample lines returns a frame built from the sample lines.
C8_ErrorLinesDoNotStopParsing ==
  [][ (pc = "tp_tail" /\ ~interrupted' /\ err_msgs(log, start_time) /= <<>>
         /\ Parsed /= <<>>) =>
        /\ pc' \in ReturnedTo
        /\ Len(dataframes') = Len(dataframes) + 1 ]_vars

\* The speed-sweep input was refused.
Refused ==
  /\ scenario = "speedtest"
  /\ speedrange /= NoSpeeds
  /\ \/ speedrange.malformed
     \/ ~speed_asserts(speedrange)
     \/ (speedrange.stop >= ConfirmSpeed /\ confirm = "n")

\* C9 as stated: after a refused speed-sweep input the run still computes
\* the suite table from the scenarios that completed, and exports it.
C9_RefusedInputKeepsSuite ==
  (pc = "exit" /\ Refused /\ testframes /= <<>>) =>
    /\ suite.done
    /\ suite.frame = concat_ignore_index(testframes)
    /\ plan.export_csv => suite.exported

\* C9 as amended: a refused speed-sweep input ends the whole run through
\* sys.exit(0): the cleanup runs, the status is 0, and the suite table is
\* never computed or exported.
C9_RefusedInputEndsRun ==
  Refused =>
    /\ pending = "exit0"
    /\ phase \in {"cleanup", "exited"}
    /\ ~suite.done
    /\ ~suite.exported
    /\ pc = "exit" => (status = 0 /\ Parked(cmds))

C9_Witness ==
  /\ pc = "exit"
  /\ Refused
  /\ testframes /= <<>>
  /\ plan.export_csv
  /\ status = 0

\* The scripts the running scenario sent itself (not main's cleanup).
ScenarioScripts == SubSeq(cmds, mark + 1, Len(cmds))

Guarded(c) == IsLevel(c) \/ IsLock(c) \/ IsMotion(c) \/ IsProbeCmd(c)

\* C10: the speed-sweep scenario sends no leveling, lock, motion or probe
\* script unless the parameters pass the three checks and, for stop >= 35,
\* the confirmation was answered y; a refused input leaves through the
\* cleanup with nothing sent by the scenario.
C10_SpeedGate ==
  /\ (scenario = "speedtest" /\ phase = "body" /\ Count(ScenarioScripts, Guarded) > 0) =>
       /\ ~speedrange.malformed
       /\ speedrange.step > 0 /\ speedrange.start >= MinSpeed
       /\ speedrange.stop >= speedrange.start
       /\ speedrange.stop >= ConfirmSpeed => confirm = "y"
  /\ (scenario = "speedtest" /\ pc = "finally" /\ pending = "exit0") =>
       Len(cmds) = mark
  /\ (scenario = "speedtest" /\ confirm \in {"n", "x"}) =>
       Count(SubSeq(cmds, mark + 1, Len(cmds)), IsProbeCmd) = 0

C10_Witness ==
  /\ scenario = "speedtest"
  /\ phase = "body"
  /\ speedrange.stop >= ConfirmSpeed
  /\ confirm = "y"
  /\ Count(ScenarioScripts, IsProbeCmd) > 0

\* The summary of a scenario's table was computed.
Summarized(name) == \E k \in 1..Len(summaries) : summaries[k].scope = name

\* C11: a configured corner count below 10, zero and negative included,
\* makes the corner scenario run with SAMPLES=10 in each of its
\* PROBE_ACCURACY scripts; a count of 10 or more is requested unchanged.
C11_CornerClampedToTen ==
  /\ scenario = "corner" =>
       \A k \in 1..Len(ScenarioScripts) :
         IsProbeCmd(ScenarioScripts[k]) =>
           ScenarioScripts[k].n = (IF plan.corner < MinCorner THEN MinCorner ELSE plan.corner)
  /\ (pc = "run_end" /\ plan.corner /= NONE /\ plan.corner < MinCorner) =>
       Summarized("corner")

\* What the claimed priority order gives for a configuration h.
FirstMatch(h) ==
  IF Truthy(h.dock_x) THEN [NoProbe EXCEPT !.isKlicky = TRUE]
  ELSE IF h.probe_type = "dockable" THEN [NoProbe EXCEPT !.isKlippain = TRUE]
  ELSE IF Truthy(h.idm) \/ Truthy(h.beacon) \/ Truthy(h.cartographer)
       THEN [NoProbe EXCEPT !.isBeacon = TRUE]
  ELSE IF h.endstop = "virtual" THEN [NoProbe EXCEPT !.isTap = TRUE]
  ELSE NoProbe

\* C12: the detected variant is the first match in the order Klicky,
\* Klippain, Beacon family, Tap, and None exactly when nothing matches; at
\* most one flag is set.
C12_FirstMatchWins ==
  pc /= "Printer" =>
    /\ probe = FirstMatch(hw)
    /\ Cardinality({f \in {"isKlicky", "isKlippain", "isTap", "isBeacon"} : probe[f]}) <= 1

\* Drop-first is not enabled in the controller's probe configuration.
DropDisabled == ~hw.has_probe \/ hw.drop_first \in {"absent", "False"}

\* C13: with drop-first disabled, an acquisition whose log shows N sample
\* lines after the watermark returns N rows with indices 0..N-1, whatever
\* else the log received meanwhile.
C13_AllSamplesReturned ==
  [][ (pc = "tp_tail" /\ ~interrupted' /\ swallowed' = swallowed
         /\ DropDisabled /\ Parsed /= <<>>) =>
        /\ pc' \in ReturnedTo
        /\ Len(dataframes') = Len(dataframes) + 1
        /\ Indices(Last(dataframes')) = [k \in 1..Len(Parsed) |-> k - 1] ]_vars

\* C18: an acquisition that returns to its scenario returns at least one
\* sample.
C18_NoEmptyTestRun ==
  Returned => Last(dataframes) /= <<>>

\* The labels of the frames the running scenario collected.
Labels == {dataframes[k][1].measurement :
             k \in {m \in 1..Len(dataframes) : dataframes[m] /= <<>>}}

\* C20: a repeatability scenario of R rounds sends R PROBE_ACCURACY scripts
\* of 10 samples, one per round after its four random moves, and collects
\* R frames under R distinct labels.
C20_OneAcquisitionPerRound ==
  (scenario = "repeatability" /\ pc = "repeat_end") =>
    /\ Count(ScenarioScripts, IsProbeCmd) = plan.repeatability
    /\ \A k \in 1..Len(ScenarioScripts) :
         IsProbeCmd(ScenarioScripts[k]) => ScenarioScripts[k].n = RepeatCount
    /\ Len(dataframes) = plan.repeatability
    /\ Cardinality(Labels) = plan.repeatability

\* C16: each corner is the mesh bound minus the probe offset on that axis,
\* in the order (xmin,ymax), (xmax,ymax), (xmin,ymin), (xmax,ymin).
C16_CornersAreBoundsMinusOffset ==
  bed_corners /= <<>> =>
    LET xmin == hw.mesh_min[1] - hw.offset[1]
        ymin == hw.mesh_min[2] - hw.offset[2]
        xmax == hw.mesh_max[1] - hw.offset[1]
        ymax == hw.mesh_max[2] - hw.offset[2]
    IN bed_corners = << << xmin, ymax >>, << xmax, ymax >>, << xmin, ymin >>, << xmax, ymin >> >>

\* The sample line a returned row was parsed from.
LineOf(r) == Parsed[r.sample_index + 1]

\* C17: a row's x, y and z are the first, second and third number of its
\* line, and for a Beacon-family variant the first, second and fourth.
C17_FieldsInOrder ==
  (Returned /\ swallowed = 0) =>
    \A k \in 1..Len(Last(dataframes)) :
      LET r == Last(dataframes)[k]
      IN /\ r.x = LineOf(r).nums[1]
         /\ r.y = LineOf(r).nums[2]
         /\ r.z = LineOf(r).nums[IF probe.isBeacon THEN 4 ELSE 3]

\* The z values of the rows of table t named name, in table order.
ZsOf(t, name) ==
  LET g == SelectSeq(t, LAMBDA r : r.test = name) IN [k \in 1..Len(g) |-> g[k].z]

\* The summary sm of table t has one row per test name of t, with range and
\* drift as claimed.
SummaryOf(t, sm) ==
  /\ DOMAIN sm = {t[k].test : k \in 1..Len(t)}
  /\ \A name \in DOMAIN sm :
       LET zs == ZsOf(t, name)
       IN /\ sm[name].count = Len(zs)
          /\ \A k \in 1..Len(zs) : sm[name].min <= zs[k] /\ zs[k] <= sm[name].max
          /\ \E k \in 1..Len(zs) : sm[name].min = zs[k]
          /\ \E k \in 1..Len(zs) : sm[name].max = zs[k]
          /\ sm[name].range = sm[name].max - sm[name].min
          /\ sm[name].drift = zs[Len(zs)] - zs[1]
          /\ Len(zs) = 1 => (sm[name].range = 0 /\ sm[name].drift = 0)

\* C14: in every scenario summary and in the suite summary, range is max
\* minus min and drift is last minus first of the test's samples in table
\* order; both are 0 for a test with one sample.
C14_RangeAndDrift ==
  /\ Len(summaries) = Len(testframes)
  /\ \A k \in 1..Len(summaries) : SummaryOf(testframes[k], summaries[k].rows)
  /\ suite.done => SummaryOf(suite.frame, suite.summary)

C14_Witness ==
  /\ suite.done
  /\ \E name \in DOMAIN suite.summary : suite.summary[name].count = 1
  /\ \E name \in DOMAIN suite.summary :
       /\ suite.summary[name].count >= 2
       /\ suite.summary[name].drift /= suite.summary[name].range

\* The k smallest members of the set S of numbers.
KSmallest(S, k) == {a \in S : Cardinality({b \in S : b < a}) < k}

\* The aggregates of the labels of table t, under either method.
LabelAggs(t, method) ==
  {agg_z(method, [k \in 1..Len(g) |-> g[k].z]) :
     g \in {SelectSeq(t, LAMBDA r : r.measurement = m) :
              m \in {t[k].measurement : k \in 1..Len(t)}}}

\* prog is the progression of table t as claimed.
ProgressionOf(t, prog) ==
  LET idxs == {t[k].sample_index : k \in 1..Len(t)}
  IN /\ Len(prog) = Cardinality(idxs)
     /\ \A k \in 1..Len(prog) :
          /\ prog[k].sample_count = k
          /\ k > 1 => prog[k].sample_count >= prog[k - 1].sample_count
          /\ prog[k].rows = SelectSeq(t, LAMBDA r : r.sample_index \in KSmallest(idxs, k))
          /\ prog[k].rows /= <<>>
          /\ \E method \in {"mean", "median"} :
               /\ prog[k].max = SetMax(LabelAggs(prog[k].rows, method))
               /\ prog[k].min = SetMin(LabelAggs(prog[k].rows, method))
          /\ prog[k].range = prog[k].max - prog[k].min

\* C15: the repeatability progression has one entry per distinct sample
\* index, sample_count 1..n in order, entry k computed from the samples
\* with the k smallest indices present, and range = max - min of the
\* per-label aggregates of that prefix.
C15_Progression ==
  \A k \in 1..Len(summaries) :
    summaries[k].scope = "repeatability" =>
      ProgressionOf(testframes[k], summaries[k].progression)

C15_Witness ==
  \E k \in 1..Len(summaries) :
    /\ summaries[k].scope = "repeatability"
    /\ Len(summaries[k].progression) >= 2
    /\ summaries[k].progression[2].range > 0
    /\ Len(summaries[k].progression[1].rows) < Len(summaries[k].progression[2].rows)

\* What a script does in the order of a scenario, "" for the others.
Role(c) ==
  IF IsLevel(c) THEN "level" ELSE IF IsLock(c) THEN "lock"
  ELSE IF IsProbeCmd(c) THEN "probe" ELSE IF IsUnlock(c) THEN "unlock" ELSE ""

\* The roles of the scripts cs, in order, the others left out.
Roles(cs) ==
  LET sel == SelectSeq(cs, LAMBDA c : Role(c) /= "") IN [k \in 1..Len(sel) |-> Role(sel[k])]

Lockable == probe.isKlicky \/ probe.isKlippain

\* The order the corner scenario is claimed to follow.
CornerOrder ==
  (IF hw.leveling /= "none" THEN << "level" >> ELSE <<>>)
  \o (IF Lockable /\ ~plan.force_dock THEN << "lock" >> ELSE <<>>)
  \o << "probe", "probe", "probe", "probe" >>
  \o (IF Lockable /\ ~plan.force_dock THEN << "unlock" >> ELSE <<>>)

IsPrefix(a, b) == Len(a) <= Len(b) /\ a = SubSeq(b, 1, Len(a))

\* The lateral move sent last before the k-th script of cs.
MoveBefore(cs, k) ==
  cs[CHOOSE m \in 1..(k - 1) :
       IsLateral(cs[m]) /\ \A q \in (m + 1)..(k - 1) : ~IsLateral(cs[q])]

\* C19: the corner scenario sends the forced leveling, the lock, four
\* acquisitions at the four corners in their fixed order, each labelled
\* with the corner's number and coordinates, and the unlock, in this order
\* (lock and unlock left out with force_dock).
C19_CornerOrder ==
  (scenario = "corner" /\ phase = "body") =>
    /\ IsPrefix(Roles(ScenarioScripts), CornerOrder)
    /\ Summarized("corner") => Roles(ScenarioScripts) = CornerOrder
    /\ Len(dataframes) <= 4
    /\ Summarized("corner") => Len(dataframes) = 4
    /\ \A k \in 1..Len(ScenarioScripts) :
         IsProbeCmd(ScenarioScripts[k]) =>
           LET nth == Count(SubSeq(ScenarioScripts, 1, k), IsProbeCmd)
               mv == MoveBefore(ScenarioScripts, k)
           IN /\ \E m \in 1..(k - 1) : IsLateral(ScenarioScripts[m])
              /\ << mv.x, mv.y >> = bed_corners[nth]
    /\ \A k \in 1..Len(dataframes) : \A m \in 1..Len(dataframes[k]) :
         /\ dataframes[k][m].measurement
              = << "corner", k, bed_corners[k][1], bed_corners[k][2] >>
         /\ dataframes[k][m].test = dataframes[k][m].measurement

C19_Witness ==
  /\ scenario = "corner"
  /\ phase = "body"
  /\ Summarized("corner")
  /\ hw.leveling /= "none"
  /\ applied
  /\ Lockable
  /\ Len(CornerOrder) = 7
  /\ \A k \in 1..4 : dataframes[k] /= <<>>

\* The scripts a step sends.
Sent == SubSeq(cmds', Len(cmds) + 1, Len(cmds'))

\* C27: for a lockable variant the exit cleanup sends the lock-releasing
\* script a scenario sends at its normal end, so that no lock is left
\* standing when the cleanup has unlocked.
C27_CleanupReleasesLock ==
  [][ (pc = "finally" /\ Lockable) =>
        /\ Sent = unlock_scripts(probe, TRUE)
        /\ \A k \in 1..Len(Sent) : IsUnlock(Sent[k])
        /\ ~LockOutstanding(cmds') ]_vars

\* C26: once a move has resolved the safe height, whatever its value, a
\* later move goes straight to the safe-height script: the controller is
\* not queried and the operator is not asked again.
C26_SafeHeightResolvedOnce ==
  [][ (pc \in {"move", "move_center"} /\ safe_z /= NONE) =>
        /\ pc' = "move_xy"
        /\ safe_z' = safe_z
        /\ Len(Sent) = 2 /\ IsSafeZMove(Sent[2]) ]_vars

\* C24: an object or key that is absent on the controller never ends the
\* program: the construction of Printer completes and the run goes on.
C24_AbsenceNeverFails ==
  /\ pc = "exit" => bed_corners /= <<>>
  /\ (pending = "error" /\ swallowed = 0) => hw.toolhead

\* C22: a call of level_bed sends the leveling script of the configured
\* subsystem once, exactly when a subsystem is configured and it is not
\* applied or force is set; otherwise it sends nothing and returns. No
\* other step sends a leveling script.
C22_LevelOnlyWhenNeeded ==
  [][ /\ (pc = "level_bed" /\ ~interrupted') =>
           /\ Sent = <<>>
           /\ pending' = pending
           /\ IF hw.leveling /= "none" /\ (~applied \/ force)
              THEN pc' = "level_cmd"
              ELSE pc' = Head(stack)
      /\ (pc = "level_cmd" /\ ~interrupted') =>
           /\ Len(Sent) = 1
           /\ Sent[1].op = (IF hw.leveling = "z_tilt" THEN "z_tilt_adjust"
                            ELSE "quad_gantry_level")
           /\ pc' = Head(stack)
      /\ (\E k \in 1..Len(Sent) : IsLevel(Sent[k])) => pc = "level_cmd" ]_vars

\* The speeds the sweep is to probe: start + k*step up to stop, and stop.
SweepValues(r) ==
  {v \in r.start..r.stop : (v - r.start) % r.step = 0} \cup {r.stop}

\* The values of S in increasing order.
Ascending(S) ==
  CHOOSE s \in [1..Cardinality(S) -> S] :
    \A a, b \in 1..Cardinality(S) : a < b => s[a] < s[b]

\* C21: for accepted parameters the speed sweep sends one PROBE_ACCURACY
\* with SAMPLES=10 for every value start + k*step up to stop, in increasing
\* order, the value stop last; each script's PROBE_SPEED is the label of its
\* acquisition and lies in [start, stop].
C21_SweepProbesEachSpeedOnce ==
  (scenario = "speedtest" /\ phase = "body" /\ speeds /= <<>>) =>
    LET sent == SelectSeq(ScenarioScripts, IsProbeCmd)
        want == Ascending(SweepValues(speedrange))
    IN /\ Len(sent) <= Len(want)
       /\ \A k \in 1..Len(sent) :
            /\ sent[k].n = SpeedCount
            /\ sent[k].spd = want[k]
            /\ sent[k].spd >= speedrange.start /\ sent[k].spd <= speedrange.stop
       /\ \A k \in 1..Len(dataframes) : \A n \in 1..Len(dataframes[k]) :
            dataframes[k][n].measurement = << "speedtest", sent[k].spd >>
       /\ pc = "speed_end" => Len(sent) = Len(want)

\* Row n of the k-th of the tables ts, and its place in their concatenation.
PlaceOf(ts, k, n) == Sum([m \in 1..(k - 1) |-> Len(ts[m])]) + n

\* The columns of a row, its index left out.
Columns(r) == << r.test, r.sample_index, r.x, r.y, r.z, r.measurement >>

\* Table t is the tables ts one after the other, each once.
ConcatOf(t, ts) ==
  /\ Len(t) = Sum([m \in 1..Len(ts) |-> Len(ts[m])])
  /\ \A k \in 1..Len(ts) : \A n \in 1..Len(ts[k]) :
       Columns(t[PlaceOf(ts, k, n)]) = Columns(ts[k][n])

\* The place of a scenario in run()'s if-chain.
RankOf(name) ==
  CASE name = "corner" -> 1 [] name = "repeatability" -> 2
    [] name = "drift" -> 3 [] name = "speedtest" -> 4 [] OTHER -> 0

\* C23: a scenario begins only when the one before it has sent its unlock
\* and appended its table, it sends nothing before it begins, the completed
\* scenarios are recorded once each in the order of run(), and the suite
\* table is their tables one after the other in that order.
C23_ScenariosInSequence ==
  [][ /\ scenario' /= scenario =>
           /\ Sent = <<>>
           /\ ~LockOutstanding(cmds)
           /\ Len(testframes) = Len(summaries)
           /\ RankOf(scenario') > RankOf(scenario)
           /\ scenario /= "none" =>
                /\ summaries /= <<>>
                /\ Last(summaries).scope = scenario
                /\ {Last(testframes)[n].test : n \in 1..Len(Last(testframes))}
                     = Last(summaries).tests
      /\ Len(testframes') > Len(testframes) =>
           /\ testframes' = Append(testframes, Last(testframes'))
           /\ \A n \in 1..Len(Last(testframes')) :
                Last(testframes')[n].test[1] = scenario
           /\ \A k \in 1..Len(testframes) : \A n \in 1..Len(testframes[k]) :
                RankOf(testframes[k][n].test[1]) < RankOf(scenario)
      /\ (pc = "run_end" /\ suite'.done) =>
           /\ ConcatOf(suite'.frame, testframes)
           /\ \A k \in 1..Len(suite'.frame) : suite'.frame[k].idx = k - 1 ]_vars

C23_Witness ==
  /\ suite.done
  /\ Len(testframes) = 2
  /\ Len(testframes[1]) > 0
  /\ Len(testframes[2]) > 0
  /\ Len(suite.frame) = Len(testframes[1]) + Len(testframes[2])

\* The sample lines the controller stored after the watermark.
NewSamples == SelectSeq(log, LAMBDA e : e.kind = "sample" /\ e.time > start_time)

Magnitude(n) == IF n < 0 THEN 0 - n ELSE n

\* C25: the watermark is the time of the newest entry when it is read and
\* nothing is stored between its reading and the PROBE_ACCURACY; every
\* entry the command adds is newer than it; and each row of the frame an
\* acquisition returns is parsed from a sample line newer than the
\* watermark, no two rows from the same line.
C25_OnlyEntriesAfterWatermark ==
  [][ /\ (pc = "tp_watermark" /\ pc' = "tp_command") =>
           /\ \A k \in 1..Len(log) : log[k].time <= start_time'
           /\ log' = log
      /\ (pc = "tp_command" /\ pc' = "tp_tail") =>
           /\ \A k \in 1..Len(log) : log[k].time <= start_time
           /\ \A k \in 1..Len(log') :
                log'[k].time <= start_time =>
                  \E m \in 1..Len(log) : log[m] = log'[k]
      /\ (pc = "tp_tail" /\ Len(dataframes') > Len(dataframes)) =>
           LET frame == Last(dataframes')
           IN /\ log' = log
              /\ \A n \in 1..Len(frame) :
                   /\ frame[n].sample_index + 1 \in 1..Len(NewSamples)
                   /\ frame[n].x = Magnitude(NewSamples[frame[n].sample_index + 1].nums[1])
                   /\ frame[n].y = Magnitude(NewSamples[frame[n].sample_index + 1].nums[2])
              /\ \A n, m \in 1..Len(frame) :
                   frame[n].sample_index = frame[m].sample_index => n = m ]_vars

\* An acquisition returned rows while sample lines of an earlier
\* acquisition were still in the store.
C25_Witness ==
  /\ Returned
  /\ Last(dataframes) /= <<>>
  /\ \E k \in 1..Len(log) : log[k].kind = "sample" /\ log[k].time <= start_time

====
